---- MODULE Spec2Model ----
(***************************************************************************)
(* Model of DOC2MD: the .docx structure walker, text deduplicator, table   *)
(* serializer, element merger (src/src/docx_parser.py), the chunker and    *)
(* result assembler (src/src/ai_processor.py) and the batch driver         *)
(* (src/main.py).                                                          *)
(*                                                                         *)
(* A Python str is a sequence of one-character strings.  Where only the    *)
(* length and the identity of a text matter (chunker, assembler) a text is *)
(* a record [id, len].                                                     *)
(***************************************************************************)
EXTENDS Integers, Sequences, FiniteSets, TLC

VARIABLES
    pc,             \* position of the function or driver being run
    text,           \* _dedup_text: argument
    cleaned,        \* _dedup_text: result of the first application
    cleaned2,       \* _dedup_text: result applied to its own result
    table,          \* _table_to_markdown: rows of cell texts
    md_table,       \* _table_to_markdown: result
    body,           \* parse_docx: the blocks of the document body walked so far
    text_buffer,    \* _extract_paragraph_elements: text_buffer
    para_elements,  \* _extract_paragraph_elements: elements
    all_elements,   \* parse_docx: all_elements
    merged,         \* parse_docx: merged (its return value)
    remerged,       \* the merge pass applied to merged
    text_elements,  \* _split_text_chunks: argument; process_with_ai: text_elements
    chunks,         \* _split_text_chunks: result; _process_text_chunks: chunks
    OPENAI_API_KEY, \* config.settings.OPENAI_API_KEY ("" when not set)
    docx_files,     \* main: docx_files, each with what parse_docx makes of it
    doc_idx,        \* main: files the for loop is done with
    success_count,  \* main: success_count
    fail_count,     \* main: fail_count
    elements,       \* convert_file: elements
    image_elements, \* process_with_ai: image_elements
    text_results,   \* _process_text_chunks: results
    image_idx,      \* process_with_ai: images the loop of step 3 is done with
    image_descriptions, \* process_with_ai: image_descriptions
    markdown,       \* convert_file: markdown, handed to save_markdown
    written,        \* the files save_markdown has written (by input file)
    calls,          \* the service calls made for the current file, in order
    stdout          \* the progress lines main and convert_file have printed

dedupVars == <<text, cleaned, cleaned2>>
tableVars == <<table, md_table>>
parseVars == <<body, text_buffer, para_elements, all_elements, merged, remerged>>
chunkVars == <<text_elements, chunks>>

batchVars == <<OPENAI_API_KEY, docx_files, doc_idx, success_count, fail_count, written>>
fileVars == <<elements, image_elements, text_results, image_idx,
              image_descriptions, markdown, calls>>
pipeVars == <<batchVars, fileVars, stdout>>

vars == <<pc, dedupVars, tableVars, parseVars, chunkVars, pipeVars>>

----------------------------------------------------------------------------
(* Bounds of the model *)

MaxTextLen == 8     \* longest argument of _dedup_text (idempotence)
MaxLineLen == 10    \* longest single line given to _dedup_text (split window)
MaxRows == 3        \* most rows of a table
MaxCols == 2        \* most cells of a table row
MaxBodySize == 6    \* most blocks plus runs of a document body
MaxElems == 4       \* most text elements given to _split_text_chunks
MaxDocElems == 4    \* most elements parse_docx returns for a converted file
MaxDocs == 3        \* most files of a batch

----------------------------------------------------------------------------
(* Python str operations on sequences of characters *)

NL == "\n"
SP == " "

\* str.isspace for the characters of the model
IsSpace(c) == c \in {SP, NL}

Min(a, b) == IF a < b THEN a ELSE b
Max(a, b) == IF a > b THEN a ELSE b

\* s[a:b] for 0 <= a, b (Python slice, 0-based, end exclusive)
Slice(s, a, b) == SubSeq(s, a + 1, Min(b, Len(s)))

RECURSIVE LStrip(_)
LStrip(s) == IF s # <<>> /\ IsSpace(Head(s)) THEN LStrip(Tail(s)) ELSE s

RECURSIVE RStrip(_)
RStrip(s) ==
    IF s # <<>> /\ IsSpace(s[Len(s)]) THEN RStrip(SubSeq(s, 1, Len(s) - 1)) ELSE s

\* str.strip()
Strip(s) == RStrip(LStrip(s))

\* str.split(sep) for a one-character sep: always at least one piece
RECURSIVE SplitAcc(_, _, _)
SplitAcc(s, sep, cur) ==
    IF s = <<>> THEN <<cur>>
    ELSE IF Head(s) = sep THEN <<cur>> \o SplitAcc(Tail(s), sep, <<>>)
    ELSE SplitAcc(Tail(s), sep, Append(cur, Head(s)))

Split(s, sep) == SplitAcc(s, sep, <<>>)

\* sep.join(parts)
RECURSIVE Join(_, _)
Join(parts, sep) ==
    IF parts = <<>> THEN <<>>
    ELSE IF Len(parts) = 1 THEN parts[1]
    ELSE parts[1] \o sep \o Join(Tail(parts), sep)

\* str.replace(old, new) for a non-empty old: every non-overlapping
\* occurrence, scanning left to right
RECURSIVE Replace(_, _, _)
Replace(s, old, new) ==
    IF Len(s) < Len(old) THEN s
    ELSE IF SubSeq(s, 1, Len(old)) = old
         THEN new \o Replace(SubSeq(s, Len(old) + 1, Len(s)), old, new)
         ELSE <<Head(s)>> \o Replace(Tail(s), old, new)

\* all sequences over S of length at most n
RECURSIVE SeqsUpTo(_, _)
SeqsUpTo(S, n) ==
    IF n = 0 THEN {<<>>}
    ELSE LET shorter == SeqsUpTo(S, n - 1)
         IN  shorter \cup {Append(s, x) : s \in {t \in shorter : Len(t) = n - 1}, x \in S}

----------------------------------------------------------------------------
(* Text deduplicator: src/src/docx_parser.py *)

\* the test of one candidate split point of _dedup_sentence
SplitMatches(t, half) ==
    LET candidate == Slice(t, 0, half)
        remainder == Slice(t, half, Len(t))
    IN  remainder = candidate \/ RStrip(remainder) = RStrip(candidate)

\* the for loop of _dedup_sentence: half counts down to stop (exclusive)
RECURSIVE SentenceScan(_, _, _)
SentenceScan(t, half, stop) ==
    IF half <= stop THEN t
    ELSE IF half >= Len(t) THEN SentenceScan(t, half - 1, stop)
    ELSE IF SplitMatches(t, half) THEN Slice(t, 0, half)
    ELSE SentenceScan(t, half - 1, stop)

\* _dedup_sentence with a scan that starts one split point too low
DedupSentenceFromLower(t) ==
    IF Len(t) < 6 THEN t
    ELSE SentenceScan(t, (Len(t) \div 2) + 1, Max(2, (Len(t) \div 2) - 2))

_dedup_sentence(t) ==
    IF Len(t) < 6 THEN t
    ELSE SentenceScan(t, (Len(t) \div 2) + 2, Max(2, (Len(t) \div 2) - 2))

\* whether the exact-half rule of _dedup_text collapses a trimmed line
ExactHalf(stripped) ==
    /\ Len(stripped) >= 4
    /\ Len(stripped) % 2 = 0
    /\ Slice(stripped, 0, Len(stripped) \div 2)
         = Slice(stripped, Len(stripped) \div 2, Len(stripped))

\* DedupLine with the exact-half rule applied from length 2 on
DedupLineHalfFromTwo(line) ==
    LET stripped == Strip(line)
        length == Len(stripped)
        half == length \div 2
        first_half == Slice(stripped, 0, half)
        second_half == Slice(stripped, half, length)
        deduped == _dedup_sentence(stripped)
    IN  IF stripped = <<>> THEN line
        ELSE IF length >= 2 /\ length % 2 = 0 /\ first_half = second_half
             THEN Replace(line, stripped, first_half)
        ELSE IF deduped # stripped THEN Replace(line, stripped, deduped)
        ELSE line

\* the body of the loop of _dedup_text: one line to its cleaned line
DedupLine(line) ==
    LET stripped == Strip(line)
        length == Len(stripped)
        half == length \div 2
        first_half == Slice(stripped, 0, half)
        second_half == Slice(stripped, half, length)
        deduped == _dedup_sentence(stripped)
    IN  IF stripped = <<>> THEN line
        ELSE IF length >= 4 /\ length % 2 = 0 /\ first_half = second_half
             THEN Replace(line, stripped, first_half)
        ELSE IF deduped # stripped THEN Replace(line, stripped, deduped)
        ELSE line

_dedup_text(t) ==
    LET lines == Split(t, NL)
    IN  Join([i \in 1..Len(lines) |-> DedupLine(lines[i])], <<NL>>)

\* the strings the deduplicator is run on
DedupAlphabet == {"a", "b", SP, NL}
LineAlphabet == {"a", "b", SP}

DedupFirst ==
    /\ pc = "start"
    /\ cleaned' = _dedup_text(text)
    /\ pc' = "once"
    /\ UNCHANGED <<text, cleaned2, tableVars, parseVars, chunkVars, pipeVars>>

DedupSecond ==
    /\ pc = "once"
    /\ cleaned2' = _dedup_text(cleaned)
    /\ pc' = "twice"
    /\ UNCHANGED <<text, cleaned, tableVars, parseVars, chunkVars, pipeVars>>

DedupIdle == text = <<>> /\ cleaned = <<>> /\ cleaned2 = <<>>
TableIdle == table = <<>> /\ md_table = <<>>
ParseIdle ==
    /\ body = <<>>
    /\ text_buffer = <<>>
    /\ para_elements = <<>>
    /\ all_elements = <<>>
    /\ merged = <<>>
    /\ remerged = <<>>
ChunkIdle == text_elements = <<>> /\ chunks = <<>>
FileIdle ==
    /\ elements = <<>>
    /\ image_elements = <<>>
    /\ text_results = <<>>
    /\ image_idx = 0
    /\ image_descriptions = <<>>
    /\ markdown = <<>>
    /\ calls = <<>>
PipeIdle ==
    /\ OPENAI_API_KEY = ""
    /\ docx_files = <<>>
    /\ doc_idx = 0
    /\ success_count = 0
    /\ fail_count = 0
    /\ written = <<>>
    /\ stdout = <<>>
    /\ FileIdle

InitDedup ==
    /\ pc = "start"
    /\ text \in SeqsUpTo(DedupAlphabet, MaxTextLen)
    /\ cleaned = <<>>
    /\ cleaned2 = <<>>
    /\ TableIdle
    /\ ParseIdle
    /\ ChunkIdle
    /\ PipeIdle

InitLine ==
    /\ pc = "start"
    /\ text \in SeqsUpTo(LineAlphabet, MaxLineLen)
    /\ cleaned = <<>>
    /\ cleaned2 = <<>>
    /\ TableIdle
    /\ ParseIdle
    /\ ChunkIdle
    /\ PipeIdle

NextDedup == DedupFirst \/ DedupSecond

\* _dedup_text applied twice to every text over DedupAlphabet
SpecDedup == InitDedup /\ [][NextDedup]_vars

\* _dedup_text applied to every single line over LineAlphabet
SpecLine == InitLine /\ [][NextDedup]_vars

----------------------------------------------------------------------------
(* Table serializer: src/src/docx_parser.py *)

\* the cell texts of the model: one plain, one with blanks around it and a
\* line break inside
CellTexts == {<<"A">>, <<SP, "B", NL, "C">>}

\* the rows (at least one cell each) and the tables of the model
TableRows == SeqsUpTo(CellTexts, MaxCols) \ {<<>>}
Tables == SeqsUpTo(TableRows, MaxRows)

\* cell.text.strip().replace("\n", " <br> ")
CellToText(cell_text) == Replace(Strip(cell_text), <<NL>>, <<SP, "<", "b", "r", ">", SP>>)

\* "| " + " | ".join(row) + " |"
RowLine(row) == <<"|", SP>> \o Join(row, <<SP, "|", SP>>) \o <<SP, "|">>

\* the while loop that pads a row up to the length of the header
RECURSIVE PadRow(_, _)
PadRow(row, n) == IF Len(row) < n THEN PadRow(Append(row, <<>>), n) ELSE row

_table_to_markdown(tbl) ==
    LET rows_data == [r \in 1..Len(tbl) |->
                        [c \in 1..Len(tbl[r]) |-> CellToText(tbl[r][c])]]
        header == RowLine(rows_data[1])
        separator == RowLine([c \in 1..Len(rows_data[1]) |-> <<"-", "-", "-">>])
        lines == <<header, separator>> \o
                 [r \in 1..(Len(rows_data) - 1) |->
                    RowLine(PadRow(rows_data[r + 1], Len(rows_data[1])))]
    IN  IF rows_data = <<>> THEN <<>> ELSE Join(lines, <<NL>>)

TableToMarkdown ==
    /\ pc = "start"
    /\ md_table' = _table_to_markdown(table)
    /\ pc' = "done"
    /\ UNCHANGED <<table, dedupVars, parseVars, chunkVars, pipeVars>>

InitTable ==
    /\ pc = "start"
    /\ table \in Tables
    /\ md_table = <<>>
    /\ DedupIdle
    /\ ParseIdle
    /\ ChunkIdle
    /\ PipeIdle

NextTable == TableToMarkdown

\* _table_to_markdown applied to every table of the model
SpecTable == InitTable /\ [][NextTable]_vars

----------------------------------------------------------------------------
(* Structure walker and element merger: src/src/docx_parser.py *)

\* doc.part.rels: the image parts the embed ids of the document resolve to
Rels ==
    [rId1 |-> [blob |-> "png-bytes", content_type |-> "image/png"],
     rId2 |-> [blob |-> "jpeg-bytes", content_type |-> "image/jpeg"]]

\* the runs of the model; texts are the texts of the run's w:t children ("" for
\* a w:t without text), blips the r:embed of its a:blip descendants ("" for a
\* blip without the attribute, rId9 for an id the relationships lack)
Runs ==
    { [texts |-> << <<"a", "b">>, <<>> >>, blips |-> <<>>],
      [texts |-> << <<SP>> >>, blips |-> <<>>],
      [texts |-> << <<"x">> >>, blips |-> <<"rId1">>],
      [texts |-> <<>>, blips |-> <<"rId9", "rId2", "">>] }

\* the tables of the model met while walking a body
WalkTables == { <<>>, << <<<<"A">>, <<"B">>>>, <<<<"C">>>> >> }

TextElement(content) == [type |-> "text", content |-> content]

\* base64.b64encode(blob).decode("utf-8"), the encoding left uninterpreted
B64(blob) == <<"base64", blob>>

_get_image_base64(image_part) == <<B64(image_part.blob), image_part.content_type>>

ImageElement(image_part) ==
    [type |-> "image",
     content |-> _get_image_base64(image_part)[1],
     mime |-> _get_image_base64(image_part)[2]]

\* "".join(parts)
RECURSIVE Concat(_)
Concat(parts) == IF parts = <<>> THEN <<>> ELSE Head(parts) \o Concat(Tail(parts))

\* a flush that emits the buffered text even when it is blank
FlushBufferBlank(buffer) ==
    IF buffer # <<>> THEN <<TextElement(_dedup_text(Strip(Concat(buffer))))>> ELSE <<>>

\* the flush of text_buffer: one text element unless blank after strip
FlushBuffer(buffer) ==
    LET joined == Strip(Concat(buffer))
    IN  IF buffer # <<>> /\ joined # <<>>
        THEN <<TextElement(_dedup_text(joined))>>
        ELSE <<>>

\* the loop over the blips of one run
RECURSIVE BlipElements(_)
BlipElements(blips) ==
    IF blips = <<>> THEN <<>>
    ELSE LET embed_id == Head(blips)
         IN  (IF embed_id # "" /\ embed_id \in DOMAIN Rels
              THEN <<ImageElement(Rels[embed_id])>>
              ELSE <<>>) \o BlipElements(Tail(blips))

\* the texts of the w:t children of a run that have text
RunTexts(run) == SelectSeq(run.texts, LAMBDA t : t # <<>>)

\* the merge loop of parse_docx over the elements still to fold
RECURSIVE MergeLoop(_, _)
MergeLoop(rest, m) ==
    IF rest = <<>> THEN m
    ELSE LET elem == Head(rest)
         IN  IF elem.type = "text" /\ m # <<>> /\ m[Len(m)].type = "text"
             THEN MergeLoop(Tail(rest),
                    [m EXCEPT ![Len(m)].content = @ \o <<NL, NL>> \o elem.content])
             ELSE MergeLoop(Tail(rest), Append(m, elem))

\* a merge pass that appends every element as it is
MergePassAppendOnly(elems) == elems

\* the merge pass of parse_docx
MergePass(elems) == MergeLoop(elems, <<>>)

\* blocks plus runs walked so far
RECURSIVE BodySize(_)
BodySize(b) ==
    IF b = <<>> THEN 0
    ELSE 1 + (IF Head(b).block_type = "paragraph" THEN Len(Head(b).runs) ELSE 0)
           + BodySize(Tail(b))

\* parse_docx meets a paragraph: _extract_paragraph_elements starts
ParagraphBegin ==
    /\ pc = "blocks"
    /\ BodySize(body) < MaxBodySize
    /\ body' = Append(body, [block_type |-> "paragraph", runs |-> <<>>])
    /\ text_buffer' = <<>>
    /\ para_elements' = <<>>
    /\ pc' = "runs"
    /\ UNCHANGED <<all_elements, merged, remerged, dedupVars, tableVars, chunkVars, pipeVars>>

\* one iteration of the loop of _extract_paragraph_elements, over a w:r child
ParagraphRun(run) ==
    /\ pc = "runs"
    /\ BodySize(body) < MaxBodySize
    /\ body' = [body EXCEPT ![Len(body)].runs = Append(@, run)]
    /\ IF run.blips # <<>>
       THEN /\ para_elements' =
                 para_elements \o FlushBuffer(text_buffer) \o BlipElements(run.blips)
            /\ text_buffer' = <<>>
       ELSE /\ text_buffer' =
                 IF RunTexts(run) # <<>>
                 THEN Append(text_buffer, Concat(RunTexts(run)))
                 ELSE text_buffer
            /\ UNCHANGED para_elements
    /\ UNCHANGED <<pc, all_elements, merged, remerged, dedupVars, tableVars, chunkVars, pipeVars>>

\* the end of _extract_paragraph_elements and all_elements.extend(...)
ParagraphEnd ==
    /\ pc = "runs"
    /\ para_elements' = para_elements \o FlushBuffer(text_buffer)
    /\ all_elements' = all_elements \o para_elements'
    /\ pc' = "blocks"
    /\ UNCHANGED <<body, text_buffer, merged, remerged, dedupVars, tableVars, chunkVars, pipeVars>>

\* parse_docx meets a table
TableBlock(tbl) ==
    /\ pc = "blocks"
    /\ BodySize(body) < MaxBodySize
    /\ body' = Append(body, [block_type |-> "table", rows |-> tbl])
    /\ all_elements' =
         IF Strip(_table_to_markdown(tbl)) # <<>>
         THEN Append(all_elements, TextElement(_table_to_markdown(tbl)))
         ELSE all_elements
    /\ UNCHANGED <<pc, text_buffer, para_elements, merged, remerged,
                   dedupVars, tableVars, chunkVars, pipeVars>>

\* the body is exhausted: the merge pass, and parse_docx returns merged
MergeElements ==
    /\ pc = "blocks"
    /\ merged' = MergePass(all_elements)
    /\ pc' = "parsed"
    /\ UNCHANGED <<body, text_buffer, para_elements, all_elements, remerged,
                   dedupVars, tableVars, chunkVars, pipeVars>>

\* the merge pass run once more, on its own output
Remerge ==
    /\ pc = "parsed"
    /\ remerged' = MergePass(merged)
    /\ pc' = "remerged"
    /\ UNCHANGED <<body, text_buffer, para_elements, all_elements, merged,
                   dedupVars, tableVars, chunkVars, pipeVars>>

InitParse ==
    /\ pc = "blocks"
    /\ ParseIdle
    /\ DedupIdle
    /\ TableIdle
    /\ ChunkIdle
    /\ PipeIdle

NextParse ==
    \/ ParagraphBegin
    \/ \E run \in Runs : ParagraphRun(run)
    \/ ParagraphEnd
    \/ \E tbl \in WalkTables : TableBlock(tbl)
    \/ MergeElements
    \/ Remerge

\* parse_docx on every document body of the model, block by block
SpecParse == InitParse /\ [][NextParse]_vars

----------------------------------------------------------------------------
(* Content chunker: src/src/ai_processor.py *)

_MAX_TEXT_CHARS_PER_CHUNK == 6000

\* a text of the chunker and the assembler: its identity and its length
AbstractText(id, n) == [id |-> id, len |-> n]

\* len(content) of such a text
StrLen(content) == content.len

\* the lengths of the texts of the model, around the chunk limit and its half
ElemLens == {0, 1, 2999, 3000, 3001, 6000, 6001}

\* the test that closes the current chunk, with the emptiness guard left out
ChunkIsFullUnguarded(current_chunk, current_len, elem_len) ==
    current_len + elem_len > _MAX_TEXT_CHARS_PER_CHUNK

\* the test that closes the current chunk before an element is added
ChunkIsFull(current_chunk, current_len, elem_len) ==
    current_chunk # <<>> /\ current_len + elem_len > _MAX_TEXT_CHARS_PER_CHUNK

\* the for loop of _split_text_chunks: its locals after the last element
RECURSIVE SplitLoop(_, _, _, _)
SplitLoop(rest, chunks_, current_chunk, current_len) ==
    IF rest = <<>>
    THEN [chunks |-> chunks_, current_chunk |-> current_chunk]
    ELSE LET elem == Head(rest)
             elem_len == StrLen(elem.content)
         IN  IF ChunkIsFull(current_chunk, current_len, elem_len)
             THEN SplitLoop(Tail(rest), Append(chunks_, current_chunk), <<elem>>, elem_len)
             ELSE SplitLoop(Tail(rest), chunks_, Append(current_chunk, elem),
                            current_len + elem_len)

\* _split_text_chunks without the append of the last open chunk
SplitTextChunksNoTail(elems) == SplitLoop(elems, <<>>, <<>>, 0).chunks

_split_text_chunks(elems) ==
    LET after == SplitLoop(elems, <<>>, <<>>, 0)
    IN  IF after.current_chunk # <<>>
        THEN Append(after.chunks, after.current_chunk)
        ELSE after.chunks

\* the lists of text elements of the model: element i has identity i
TextElementLists ==
    {[i \in 1..Len(lens) |-> TextElement(AbstractText(i, lens[i]))] :
        lens \in SeqsUpTo(ElemLens, MaxElems)}

SplitTextChunks ==
    /\ pc = "start"
    /\ chunks' = _split_text_chunks(text_elements)
    /\ pc' = "done"
    /\ UNCHANGED <<text_elements, dedupVars, tableVars, parseVars, pipeVars>>

InitChunk ==
    /\ pc = "start"
    /\ text_elements \in TextElementLists
    /\ chunks = <<>>
    /\ DedupIdle
    /\ TableIdle
    /\ ParseIdle
    /\ PipeIdle

NextChunk == SplitTextChunks

\* _split_text_chunks applied to every list of text elements of the model
SpecChunk == InitChunk /\ [][NextChunk]_vars

----------------------------------------------------------------------------
(* Result assembler: src/src/ai_processor.py, and the driver: src/main.py  *)
(*                                                                         *)
(* A text the service returns is the sequence of its lines (what           *)
(* split("\n") gives, so "" is one empty line); a line is a sequence of    *)
(* tokens [kind, of].                                                      *)

\* the position hint is the first 80 characters of a text
HintLen == 80

Token(kind, of) == [kind |-> kind, of |-> of]

\* ""
MdEmpty == << <<>> >>

\* a + b
MdCat(a, b) ==
    SubSeq(a, 1, Len(a) - 1) \o <<a[Len(a)] \o b[1]>> \o Tail(b)

\* "\n\n"
BlankLine == << <<>>, <<>>, <<>> >>

\* sep.join(parts)
RECURSIVE MdJoin(_, _)
MdJoin(parts, sep) ==
    IF parts = <<>> THEN MdEmpty
    ELSE IF Len(parts) = 1 THEN parts[1]
    ELSE MdCat(MdCat(parts[1], sep), MdJoin(Tail(parts), sep))

\* "\n".join(lines)
MdLines(lines) == IF lines = <<>> THEN MdEmpty ELSE lines

\* str.strip(): the lines of the model hold no blanks, so the empty lines at
\* both ends go
RECURSIVE MdLStrip(_)
MdLStrip(t) == IF Len(t) > 1 /\ t[1] = <<>> THEN MdLStrip(Tail(t)) ELSE t

RECURSIVE MdRStrip(_)
MdRStrip(t) ==
    IF Len(t) > 1 /\ t[Len(t)] = <<>> THEN MdRStrip(SubSeq(t, 1, Len(t) - 1)) ELSE t

MdStrip(t) == MdRStrip(MdLStrip(t))

\* text.startswith of the opening fence and text.endswith of the closing one
StartsWithFence(t) == t[1] # <<>> /\ t[1][1].kind = "fence_markdown"
EndsWithFence(t) == t[Len(t)] # <<>> /\ t[Len(t)][Len(t[Len(t)])].kind = "fence"

_strip_markdown_fences(t) ==
    LET stripped == MdStrip(t)
        opened == IF StartsWithFence(stripped)
                  THEN MdStrip([stripped EXCEPT ![1] = Tail(@)])
                  ELSE stripped
    IN  IF EndsWithFence(opened)
        THEN MdStrip([opened EXCEPT ![Len(opened)] = SubSeq(@, 1, Len(@) - 1)])
        ELSE opened

\* the lines _clean_output drops: an image placeholder, a refusal
IsDroppedLine(line) ==
    Len(line) = 1 /\ line[1].kind \in {"image_placeholder", "refusal"}

_clean_output(t) == MdLines(SelectSeq(t, LAMBDA line : ~IsDroppedLine(line)))

\* "SKIP_UI_IMAGE" in raw
HasSkipSentinel(t) ==
    \E i \in 1..Len(t) : \E j \in 1..Len(t[i]) : t[i][j].kind = "SKIP_UI_IMAGE"

\* raw.lower() starts with a refusal ("i'm sorry", "i apologize")
StartsWithRefusal(t) == t[1] # <<>> /\ t[1][1].kind = "refusal"

\* message.content of a reply that carries no text
None == <<>>

\* what the service can do with text chunk idx (counted from 1): convert it,
\* convert it inside a fence and with an image placeholder, answer without
\* content, or fail
TextReplies(idx) ==
    { [outcome |-> "ok", content |-> << <<Token("markdown", idx)>> >>],
      [outcome |-> "ok",
       content |-> << <<Token("fence_markdown", 0)>>,
                      <<Token("markdown fenced", idx)>>,
                      <<Token("image_placeholder", 0)>>,
                      <<Token("fence", 0)>> >>],
      [outcome |-> "ok", content |-> None],
      [outcome |-> "error", content |-> None] }

\* what the service can do with image idx: describe it, flag a UI screenshot,
\* refuse, answer with an image placeholder only, or fail
ImageReplies(idx) ==
    { [outcome |-> "ok", content |-> << <<Token("description", idx)>> >>],
      [outcome |-> "ok", content |-> << <<Token("SKIP_UI_IMAGE", 0)>> >>],
      [outcome |-> "ok", content |-> << <<Token("refusal", 0)>> >>],
      [outcome |-> "ok", content |-> << <<Token("image_placeholder", 0)>> >>],
      [outcome |-> "error", content |-> None] }

\* _call_openai that returns "" when the call fails
CallOpenAISwallowsError(reply) ==
    [raised |-> FALSE,
     text |-> IF reply.content = None THEN MdEmpty ELSE reply.content]

\* _call_openai: RuntimeError when the call fails, else the content or ""
_call_openai(reply) ==
    [raised |-> reply.outcome = "error",
     text |-> IF reply.content = None THEN MdEmpty ELSE reply.content]

\* _process_image without the try/except around the call
ProcessImageUncaught(reply) ==
    LET got == _call_openai(reply)
        raw == MdStrip(got.text)
    IN  IF got.raised THEN [raised |-> TRUE, desc |-> MdEmpty]
        ELSE IF HasSkipSentinel(raw) THEN [raised |-> FALSE, desc |-> MdEmpty]
        ELSE IF StartsWithRefusal(raw) THEN [raised |-> FALSE, desc |-> MdEmpty]
        ELSE [raised |-> FALSE, desc |-> _clean_output(raw)]

\* _process_image: the description, "" for a UI screenshot, a refusal or a
\* failed call (the except clause)
_process_image(reply) ==
    LET got == _call_openai(reply)
        raw == MdStrip(got.text)
    IN  IF got.raised THEN [raised |-> FALSE, desc |-> MdEmpty]
        ELSE IF HasSkipSentinel(raw) THEN [raised |-> FALSE, desc |-> MdEmpty]
        ELSE IF StartsWithRefusal(raw) THEN [raised |-> FALSE, desc |-> MdEmpty]
        ELSE [raised |-> FALSE, desc |-> _clean_output(raw)]

\* content[:n] that cuts nothing off
PrefixUncut(content, n) ==
    IF content.len = 0 THEN AbstractText(0, 0) ELSE content

\* content[:n] of a text known by identity and length
Prefix(content, n) ==
    IF Min(n, content.len) = 0 THEN AbstractText(0, 0)
    ELSE AbstractText(content.id, Min(n, content.len))

\* step 1 of process_with_ai: the loop that separates texts from images
RECURSIVE SeparateLoop(_, _, _, _, _)
SeparateLoop(elems, i, texts, images, last_text_hint) ==
    IF i > Len(elems)
    THEN [text_elements |-> texts, image_elements |-> images]
    ELSE IF elems[i].type = "text"
    THEN SeparateLoop(elems, i + 1, Append(texts, elems[i]), images,
                      Prefix(elems[i].content, HintLen))
    ELSE IF elems[i].type = "image"
    THEN SeparateLoop(elems, i + 1, texts,
                      Append(images, [orig_idx |-> i - 1, elem |-> elems[i],
                                      hint |-> last_text_hint]),
                      last_text_hint)
    ELSE SeparateLoop(elems, i + 1, texts, images, last_text_hint)

\* the messages of a chunk call when every call is made as the first one
TextMessagesAllOpening(idx, chunk) ==
    [kind |-> "text",
     system |-> "SYSTEM_PROMPT",
     lead |-> "Please convert the following document content",
     parts |-> [i \in 1..Len(chunk) |-> chunk[i].content]]

\* the messages of the call for chunk idx (counted from 0)
TextMessages(idx, chunk) ==
    [kind |-> "text",
     system |-> IF idx = 0 THEN "SYSTEM_PROMPT" ELSE "_CONTINUATION_PROMPT",
     lead |-> IF idx = 0
              THEN "Please convert the following document content"
              ELSE "This is the NEXT part of the same document",
     parts |-> [i \in 1..Len(chunk) |-> chunk[i].content]]

\* the messages of the call for one image
ImageMessages(image_elem, position_hint) ==
    [kind |-> "image",
     system |-> "_IMAGE_PROMPT",
     hint |-> position_hint,
     mime |-> image_elem.mime,
     data |-> image_elem.content]

\* desc is kept whether or not it is empty
KeepEveryDescription(descriptions, desc) == Append(descriptions, desc)

\* if desc: image_descriptions.append(desc)
KeepDescription(descriptions, desc) ==
    IF desc # MdEmpty THEN Append(descriptions, desc) ELSE descriptions

\* "\n\n---\n\n## Technical Diagram Descriptions\n\n"
DiagramSectionHead ==
    << <<>>, <<>>, <<Token("---", 0)>>, <<>>,
       <<Token("## Technical Diagram Descriptions", 0)>>, <<>>, <<>> >>

\* f"### Diagram {i}\n\n{desc}\n\n"
DiagramEntry(i, desc) ==
    MdCat(MdCat(<< <<Token("### Diagram", i)>>, <<>>, <<>> >>, desc), BlankLine)

\* the loop of step 4 over enumerate(image_descriptions, 1), from entry i on
RECURSIVE AppendDiagrams(_, _, _)
AppendDiagrams(md, descriptions, i) ==
    IF i > Len(descriptions) THEN md
    ELSE AppendDiagrams(MdCat(md, DiagramEntry(i, descriptions[i])), descriptions, i + 1)

\* step 4 of process_with_ai
MergeResults(results, descriptions) ==
    LET joined == MdJoin(results, BlankLine)
    IN  IF descriptions # <<>>
        THEN AppendDiagrams(MdCat(joined, DiagramSectionHead), descriptions, 1)
        ELSE joined

\* the element lists parse_docx can return with at most n elements: texts
\* of 40 or 6001 characters and images, no two texts adjacent; element i has
\* identity i
ElementKinds == {"text 40", "text 6001", "image"}

ElementOfKind(kind, i) ==
    IF kind = "image"
    THEN [type |-> "image", content |-> <<"base64", i>>, mime |-> "image/png"]
    ELSE TextElement(AbstractText(i, IF kind = "text 40" THEN 40 ELSE 6001))

ElementLists(n) ==
    {[i \in 1..Len(kinds) |-> ElementOfKind(kinds[i], i)] :
        kinds \in {k \in SeqsUpTo(ElementKinds, n) :
                     \A i \in 1..(Len(k) - 1) : k[i] = "image" \/ k[i + 1] = "image"}}

\* the input files: one that parse_docx rejects, and the valid ones
InvalidFile == [valid |-> FALSE, elements |-> <<>>]
ValidFiles(n) == {[valid |-> TRUE, elements |-> e] : e \in ElementLists(n)}

\* a progress line: what it says and the number it carries
Printed(what, n) == [line |-> what, n |-> n]

\* main: the for loop takes the next file; convert_file calls parse_docx
ConvertFileParse ==
    /\ pc = "main_loop"
    /\ doc_idx < Len(docx_files)
    /\ stdout' = stdout \o <<Printed("[idx/n]", doc_idx + 1),
                             Printed("Parsing", doc_idx + 1)>>
    /\ IF docx_files[doc_idx + 1].valid
       THEN /\ elements' = docx_files[doc_idx + 1].elements
            /\ pc' = "process_with_ai"
       ELSE /\ pc' = "raised"
            /\ UNCHANGED elements
    /\ UNCHANGED <<batchVars, image_elements, text_results, image_idx,
                   image_descriptions, markdown, calls,
                   dedupVars, tableVars, parseVars, chunkVars>>

\* process_with_ai up to the first service call: the credential, step 1,
\* and the chunks of _process_text_chunks
ProcessStart ==
    /\ pc = "process_with_ai"
    /\ IF OPENAI_API_KEY = ""
       THEN /\ pc' = "raised"
            /\ UNCHANGED <<text_elements, image_elements, chunks>>
       ELSE /\ text_elements' =
                 SeparateLoop(elements, 1, <<>>, <<>>, AbstractText(0, 0)).text_elements
            /\ image_elements' =
                 SeparateLoop(elements, 1, <<>>, <<>>, AbstractText(0, 0)).image_elements
            /\ chunks' = _split_text_chunks(text_elements')
            /\ pc' = "text_chunks"
    /\ stdout' = Append(stdout, Printed("Processing", doc_idx + 1))
    /\ UNCHANGED <<batchVars, elements, text_results, image_idx,
                   image_descriptions, markdown, calls,
                   dedupVars, tableVars, parseVars>>

\* one iteration of the loop of _process_text_chunks
TextChunkCall(reply) ==
    /\ pc = "text_chunks"
    /\ Len(text_results) < Len(chunks)
    /\ calls' = Append(calls,
                  [messages |-> TextMessages(Len(text_results),
                                             chunks[Len(text_results) + 1]),
                   reply |-> reply])
    /\ IF _call_openai(reply).raised
       THEN /\ pc' = "raised"
            /\ UNCHANGED text_results
       ELSE /\ text_results' =
                 Append(text_results,
                        _clean_output(_strip_markdown_fences(_call_openai(reply).text)))
            /\ UNCHANGED pc
    /\ UNCHANGED <<batchVars, elements, image_elements, image_idx,
                   image_descriptions, markdown, stdout,
                   dedupVars, tableVars, parseVars, chunkVars>>

\* _process_text_chunks returns its results: step 3 begins
TextChunksReturn ==
    /\ pc = "text_chunks"
    /\ Len(text_results) = Len(chunks)
    /\ pc' = "images"
    /\ UNCHANGED <<pipeVars, dedupVars, tableVars, parseVars, chunkVars>>

\* one iteration of the loop of step 3
ImageCall(reply) ==
    /\ pc = "images"
    /\ image_idx < Len(image_elements)
    /\ calls' = Append(calls,
                  [messages |-> ImageMessages(image_elements[image_idx + 1].elem,
                                              image_elements[image_idx + 1].hint),
                   reply |-> reply])
    /\ image_idx' = image_idx + 1
    /\ IF _process_image(reply).raised
       THEN /\ pc' = "raised"
            /\ UNCHANGED image_descriptions
       ELSE /\ image_descriptions' =
                 KeepDescription(image_descriptions, _process_image(reply).desc)
            /\ UNCHANGED pc
    /\ UNCHANGED <<batchVars, elements, image_elements, text_results, markdown,
                   stdout, dedupVars, tableVars, parseVars, chunkVars>>

\* step 4 of process_with_ai, its return, and save_markdown in convert_file
MergeAndSave ==
    /\ pc = "images"
    /\ image_idx = Len(image_elements)
    /\ markdown' = MergeResults(text_results, image_descriptions)
    /\ written' = Append(written, doc_idx + 1)
    /\ stdout' = stdout \o <<Printed("Writing", doc_idx + 1),
                             Printed("Done", doc_idx + 1)>>
    /\ pc' = "converted"
    /\ UNCHANGED <<OPENAI_API_KEY, docx_files, doc_idx, success_count, fail_count,
                   elements, image_elements, text_results, image_idx,
                   image_descriptions, calls,
                   dedupVars, tableVars, parseVars, chunkVars>>

\* the locals of convert_file and process_with_ai are gone once they return
\* or raise
FileLocalsDiscarded ==
    /\ elements' = <<>>
    /\ image_elements' = <<>>
    /\ text_results' = <<>>
    /\ image_idx' = 0
    /\ image_descriptions' = <<>>
    /\ markdown' = <<>>
    /\ calls' = <<>>
    /\ text_elements' = <<>>
    /\ chunks' = <<>>

\* convert_file returns to main
ConvertFileReturn ==
    /\ pc = "converted"
    /\ success_count' = success_count + 1
    /\ doc_idx' = doc_idx + 1
    /\ FileLocalsDiscarded
    /\ pc' = "main_loop"
    /\ UNCHANGED <<OPENAI_API_KEY, docx_files, fail_count, written, stdout,
                   dedupVars, tableVars, parseVars>>

\* the except clause of main, were it to end the batch
MainExceptEndsBatch ==
    /\ pc = "raised"
    /\ stdout' = Append(stdout, Printed("Failed", doc_idx + 1))
    /\ fail_count' = fail_count + 1
    /\ doc_idx' = doc_idx + 1
    /\ FileLocalsDiscarded
    /\ pc' = "done"
    /\ UNCHANGED <<OPENAI_API_KEY, docx_files, success_count, written,
                   dedupVars, tableVars, parseVars>>

\* the except clause of main catches what convert_file raised
MainExcept ==
    /\ pc = "raised"
    /\ stdout' = Append(stdout, Printed("Failed", doc_idx + 1))
    /\ fail_count' = fail_count + 1
    /\ doc_idx' = doc_idx + 1
    /\ FileLocalsDiscarded
    /\ pc' = "main_loop"
    /\ UNCHANGED <<OPENAI_API_KEY, docx_files, success_count, written,
                   dedupVars, tableVars, parseVars>>

\* the for loop of main is over
MainDone ==
    /\ pc = "main_loop"
    /\ doc_idx = Len(docx_files)
    /\ stdout' = stdout \o <<Printed("succeeded", success_count),
                             Printed("failed", fail_count)>>
    /\ pc' = "done"
    /\ UNCHANGED <<batchVars, fileVars, dedupVars, tableVars, parseVars, chunkVars>>

NextMain ==
    \/ ConvertFileParse
    \/ ProcessStart
    \/ \E reply \in TextReplies(Len(text_results) + 1) : TextChunkCall(reply)
    \/ TextChunksReturn
    \/ \E reply \in ImageReplies(image_idx + 1) : ImageCall(reply)
    \/ MergeAndSave
    \/ ConvertFileReturn
    \/ MainExcept
    \/ MainDone

InitMain ==
    /\ pc = "main_loop"
    /\ OPENAI_API_KEY \in {"", "sk-key"}
    /\ doc_idx = 0
    /\ success_count = 0
    /\ fail_count = 0
    /\ written = <<>>
    /\ stdout = <<>>
    /\ FileIdle
    /\ DedupIdle
    /\ TableIdle
    /\ ParseIdle
    /\ ChunkIdle

\* main given one file: any file of the model
InitConvert ==
    /\ InitMain
    /\ docx_files \in {<<f>> : f \in ValidFiles(MaxDocElems) \cup {InvalidFile}}

\* main on a single file of up to MaxDocElems elements
SpecConvert == InitConvert /\ [][NextMain]_vars

\* the files of a batch: one invalid, one of text only, one of two chunks
\* and an image
BatchFiles ==
    { InvalidFile,
      [valid |-> TRUE, elements |-> <<ElementOfKind("text 40", 1)>>],
      [valid |-> TRUE,
       elements |-> <<ElementOfKind("text 6001", 1), ElementOfKind("image", 2),
                      ElementOfKind("text 40", 3)>>] }

InitBatch ==
    /\ InitMain
    /\ docx_files \in SeqsUpTo(BatchFiles, MaxDocs) \ {<<>>}

\* main on a batch of up to MaxDocs files
Spec == InitBatch /\ [][NextMain]_vars

----------------------------------------------------------------------------
(* C5: idempotence of the deduplicator *)

\* every line of t has fewer than n characters once trimmed
LinesShorterThan(t, n) ==
    \A i \in 1..Len(Split(t, NL)) : Len(Strip(Split(t, NL)[i])) < n

\* C5 as stated: for every string x, _dedup_text(_dedup_text(x)) equals
\* _dedup_text(x).
C5_Idempotent == pc = "twice" => cleaned2 = cleaned

\* C5 amended: _dedup_text(_dedup_text(x)) equals _dedup_text(x) for every
\* string x whose lines all have fewer than 8 characters once trimmed.
C5_IdempotentShortLines ==
    (pc = "twice" /\ LinesShorterThan(text, 8)) => cleaned2 = cleaned

\* a text of short lines that the first application changed
C5_Witness ==
    /\ pc = "twice"
    /\ LinesShorterThan(text, 8)
    /\ cleaned # text
    /\ cleaned2 = cleaned

----------------------------------------------------------------------------
(* C6: the split window of the sentence-level rule *)

\* the split points of the claim: floor(len/2)-2 .. floor(len/2)+2, valid
\* ones only, that match
MatchingSplits(t) ==
    {h \in ((Len(t) \div 2) - 2)..((Len(t) \div 2) + 2) :
        h >= 1 /\ h < Len(t) /\ SplitMatches(t, h)}

\* text[:h] for the largest matching split point, the text itself if none
LargestSplit(t) ==
    IF MatchingSplits(t) = {} THEN t
    ELSE Slice(t, 0, CHOOSE h \in MatchingSplits(t) :
                        \A g \in MatchingSplits(t) : g <= h)

\* C6 as stated: every non-empty trimmed line the exact-half rule leaves
\* alone, of any length, is replaced by text[:h] for the largest matching
\* split point h of the window, and is unchanged if none matches.
C6_WindowEveryLength ==
    (pc # "start" /\ Strip(text) # <<>> /\ ~ExactHalf(Strip(text)))
        => cleaned = Replace(text, Strip(text), LargestSplit(Strip(text)))

\* C6 amended: a non-empty trimmed line the exact-half rule leaves alone is
\* replaced by text[:h] for the largest matching split point h of the window
\* (unchanged if none matches) when it has at least 6 characters; a shorter
\* line is always left unchanged.
C6_WindowFromSix ==
    (pc # "start" /\ Strip(text) # <<>> /\ ~ExactHalf(Strip(text)))
        => cleaned = IF Len(Strip(text)) < 6 THEN text
                     ELSE Replace(text, Strip(text), LargestSplit(Strip(text)))

\* a line of at least 6 characters that a split point above the middle cut
C6_Witness ==
    /\ pc # "start"
    /\ Len(Strip(text)) >= 6
    /\ ~ExactHalf(Strip(text))
    /\ cleaned # text
    /\ Len(Strip(cleaned)) < Len(Strip(text)) - (Len(Strip(text)) \div 2)

----------------------------------------------------------------------------
(* C7: shape of a serialized table *)

\* the cells of an output line: the pieces between its delimiters
CellCount(line) == Len(Split(line, "|")) - 2

\* the lines of the block are the header, the separator and one line per
\* remaining row, all with as many cells as the header
TableShape ==
    LET lines == Split(md_table, NL)
        columns == Len(table[1])
    IN  /\ Len(lines) = Len(table) + 1
        /\ lines[1] = RowLine([c \in 1..columns |-> CellToText(table[1][c])])
        /\ lines[2] = RowLine([c \in 1..columns |-> <<"-", "-", "-">>])
        /\ \A i \in 1..Len(lines) : CellCount(lines[i]) = CellCount(lines[1])

\* C7: a grid with at least one row, of even or uneven row lengths, gives
\* rows+1 lines (header, separator with one dash cell per header column, one
\* line per remaining row), every line with as many cells as the header; a
\* grid with no row gives the empty string.
C7_TableShape ==
    pc = "done" => IF table = <<>> THEN md_table = <<>> ELSE TableShape

\* the same shape for the grids none of whose rows is longer than the first
C7_ShapeWithoutLongerRows ==
    (pc = "done" /\ \A r \in 1..Len(table) : Len(table[r]) <= Len(table[1]))
        => IF table = <<>> THEN md_table = <<>> ELSE TableShape

----------------------------------------------------------------------------
(* C3: the merge pass leaves no adjacent texts and is idempotent *)

NoAdjacentText(elems) ==
    \A i \in 1..(Len(elems) - 1) :
        ~(elems[i].type = "text" /\ elems[i + 1].type = "text")

\* C3: the output of the merge pass has no two adjacent Text elements, and
\* the merge pass applied again to that output returns it unchanged.
C3_MergeIdempotent ==
    /\ pc \in {"parsed", "remerged"} => NoAdjacentText(merged)
    /\ pc = "remerged" => remerged = merged

\* a raw sequence with adjacent texts around an image was merged and remerged
C3_Witness ==
    /\ pc = "remerged"
    /\ ~NoAdjacentText(all_elements)
    /\ \E i \in 1..Len(all_elements) : all_elements[i].type = "image"
    /\ Len(merged) < Len(all_elements)

----------------------------------------------------------------------------
(* C4: the pre-merge sequence follows block order and run order *)

\* what the claim says of the runs of a paragraph: the text runs before the
\* first image-bearing run flushed as one element, the images of that run,
\* and so on with the runs after it; the text runs left flushed at the end
ImageRunIndexes(runs) == {i \in 1..Len(runs) : runs[i].blips # <<>>}

TextOfRuns(runs) ==
    Strip(Concat([i \in 1..Len(runs) |-> Concat(runs[i].texts)]))

ClaimedFlush(runs) ==
    IF TextOfRuns(runs) = <<>> THEN <<>>
    ELSE <<TextElement(_dedup_text(TextOfRuns(runs)))>>

ClaimedImages(run) ==
    LET resolvable == SelectSeq(run.blips, LAMBDA id : id \in DOMAIN Rels)
    IN  [i \in 1..Len(resolvable) |-> ImageElement(Rels[resolvable[i]])]

RECURSIVE ClaimedParagraph(_)
ClaimedParagraph(runs) ==
    IF ImageRunIndexes(runs) = {} THEN ClaimedFlush(runs)
    ELSE LET k == CHOOSE i \in ImageRunIndexes(runs) :
                      \A j \in ImageRunIndexes(runs) : i <= j
         IN  ClaimedFlush(SubSeq(runs, 1, k - 1))
                 \o ClaimedImages(runs[k])
                 \o ClaimedParagraph(SubSeq(runs, k + 1, Len(runs)))

ClaimedBlock(block) ==
    IF block.block_type = "paragraph" THEN ClaimedParagraph(block.runs)
    ELSE IF block.rows = <<>> THEN <<>>
    ELSE <<TextElement(_table_to_markdown(block.rows))>>

RECURSIVE ClaimedElements(_)
ClaimedElements(b) ==
    IF b = <<>> THEN <<>> ELSE ClaimedBlock(Head(b)) \o ClaimedElements(Tail(b))

\* C4: the pre-merge sequence is, block by block and run by run, the flushed
\* text (omitted if blank) before each image-bearing run, one Image per
\* resolvable reference of the run in order, the text left over flushed at
\* the end of the paragraph, and one Text per non-empty table.
C4_WalkOrder ==
    pc \in {"blocks", "parsed", "remerged"} => all_elements = ClaimedElements(body)

\* a paragraph with text, an image-bearing run holding an unresolvable and a
\* resolvable reference, and text again, next to a non-empty table
C4_Witness ==
    /\ pc = "parsed"
    /\ \E i \in 1..Len(body) :
          /\ body[i].block_type = "paragraph"
          /\ Len(body[i].runs) = 3
          /\ body[i].runs[1].blips = <<>> /\ TextOfRuns(<<body[i].runs[1]>>) # <<>>
          /\ body[i].runs[2].blips = <<"rId9", "rId2", "">>
          /\ body[i].runs[3].blips = <<>>
    /\ \E i \in 1..Len(body) : body[i].block_type = "table" /\ body[i].rows # <<>>
    /\ Len(all_elements) = 4

----------------------------------------------------------------------------
(* C1, C2: the chunks are bounded, non-empty and cover the input *)

RECURSIVE SumLen(_)
SumLen(chunk) ==
    IF chunk = <<>> THEN 0 ELSE StrLen(Head(chunk).content) + SumLen(Tail(chunk))

\* C1: every chunk returned is non-empty, and either its summed content
\* length is at most max_chars or it holds exactly one element.
C1_ChunkBound ==
    pc = "done" =>
        \A i \in 1..Len(chunks) :
            /\ chunks[i] # <<>>
            /\ SumLen(chunks[i]) <= _MAX_TEXT_CHARS_PER_CHUNK \/ Len(chunks[i]) = 1

\* an oversized element alone in its chunk, before a chunk of several
\* elements filled exactly to the limit
C1_Witness ==
    /\ pc = "done"
    /\ Len(chunks) >= 2
    /\ Len(chunks[1]) = 1 /\ SumLen(chunks[1]) > _MAX_TEXT_CHARS_PER_CHUNK
    /\ \E i \in 1..Len(chunks) :
          Len(chunks[i]) >= 2 /\ SumLen(chunks[i]) = _MAX_TEXT_CHARS_PER_CHUNK

\* C2: the chunks concatenated in order are exactly the input sequence; an
\* empty input gives no chunk.
C2_ChunkCoverage ==
    pc = "done" =>
        /\ Concat(chunks) = text_elements
        /\ text_elements = <<>> => chunks = <<>>

\* an input split into several chunks, the last one still open at the end
C2_Witness ==
    /\ pc = "done"
    /\ Len(text_elements) = MaxElems
    /\ Len(chunks) >= 2
    /\ Concat(chunks) = text_elements

----------------------------------------------------------------------------
(* C8, C9, C10: the assembled output and the two kinds of service failure *)

TextCalls == SelectSeq(calls, LAMBDA c : c.messages.kind = "text")
ImageCalls == SelectSeq(calls, LAMBDA c : c.messages.kind = "image")

\* what the replies to the text calls made so far give, call by call
ChunkResults ==
    [k \in 1..Len(TextCalls) |->
        _clean_output(_strip_markdown_fences(
            IF TextCalls[k].reply.content = None THEN MdEmpty
            ELSE TextCalls[k].reply.content))]

\* whether an image call failed: an error, a refusal or the UI sentinel
ImageCallFailed(c) ==
    \/ c.reply.outcome = "error"
    \/ c.reply.content # None /\ HasSkipSentinel(c.reply.content)
    \/ c.reply.content # None /\ StartsWithRefusal(c.reply.content)

\* the output up to the supplementary section: the lines before the blank
\* line and the rule that open it, all of it when there is no section
RuleLines(md) == {i \in 1..Len(md) : md[i] = <<Token("---", 0)>>}

TextPart(md) ==
    IF RuleLines(md) = {} THEN md
    ELSE SubSeq(md, 1, (CHOOSE i \in RuleLines(md) : \A j \in RuleLines(md) : i <= j) - 2)

\* C8: whichever image calls fail, process_with_ai returns, and the text part
\* of its output is the chunk results joined in order, as when none fails; a
\* failure is never raised out of the image step.
C8_ImageIsolation ==
    /\ pc = "raised" => ImageCalls = <<>>
    /\ pc = "converted" =>
          /\ Len(ImageCalls) = Len(image_elements)
          /\ TextPart(markdown) = MdJoin(ChunkResults, BlankLine)

\* a file of two chunks converted although its first image call raised and
\* its second was refused or flagged
C8_Witness ==
    /\ pc = "converted"
    /\ Len(TextCalls) = 2
    /\ Len(ImageCalls) = 2
    /\ ImageCalls[1].reply.outcome = "error"
    /\ ImageCalls[2].reply.outcome = "ok" /\ ImageCallFailed(ImageCalls[2])
    /\ doc_idx + 1 \in {written[i] : i \in 1..Len(written)}

\* the descriptions the replies to the image calls give, empty ones left out
RECURSIVE NonEmptyDescriptions(_)
NonEmptyDescriptions(image_calls) ==
    IF image_calls = <<>> THEN <<>>
    ELSE (IF _process_image(Head(image_calls).reply).desc = MdEmpty THEN <<>>
          ELSE <<_process_image(Head(image_calls).reply).desc>>)
         \o NonEmptyDescriptions(Tail(image_calls))

\* the supplementary section over descriptions numbered first..
RECURSIVE NumberedEntries(_, _)
NumberedEntries(descriptions, first) ==
    IF descriptions = <<>> THEN MdEmpty
    ELSE MdCat(DiagramEntry(first, Head(descriptions)),
               NumberedEntries(Tail(descriptions), first + 1))

FailedTextCalls ==
    {k \in 1..Len(calls) :
        calls[k].messages.kind = "text" /\ calls[k].reply.outcome = "error"}

\* C10: a failed text-chunk call is the last call made for its file (it is
\* not retried, no text or image call follows), the failure is raised out of
\* convert_file, nothing is written for the file, and main counts it failed.
C10_TextFailureFatal ==
    /\ [](\A k \in FailedTextCalls :
            /\ k = Len(calls)
            /\ pc = "raised"
            /\ markdown = <<>>
            /\ doc_idx + 1 \notin {written[i] : i \in 1..Len(written)})
    /\ [][pc = "raised" =>
            /\ fail_count' = fail_count + 1
            /\ success_count' = success_count
            /\ written' = written
            /\ calls' = <<>>]_vars

\* the first of two chunk calls failed with the second chunk and an image
\* still to come
C10_Witness ==
    /\ pc = "raised"
    /\ FailedTextCalls = {1}
    /\ Len(chunks) = 2
    /\ image_elements # <<>>

----------------------------------------------------------------------------
(* C11: the documents of a batch are converted independently *)

\* the progress lines of one kind, in the order they were printed
LinesOf(what) == SelectSeq(stdout, LAMBDA l : l.line = what)

\* the documents convert_file has been called for, in order
Attempted == [i \in 1..Len(LinesOf("[idx/n]")) |-> LinesOf("[idx/n]")[i].n]

\* the documents whose conversion failed, and those converted
FailedDocs == {l.n : l \in {LinesOf("Failed")[i] : i \in 1..Len(LinesOf("Failed"))}}
ConvertedDocs == {written[i] : i \in 1..Len(written)}

\* convert_file is running on document doc_idx + 1
InConvertFile == pc \in {"process_with_ai", "text_chunks", "images", "converted", "raised"}

\* what makes the document at hand fail: parse_docx rejects it, the
\* credential is not set, or a text chunk call has failed
FailureOfThisDocument ==
    \/ ~docx_files[doc_idx + 1].valid
    \/ OPENAI_API_KEY = ""
    \/ \E i \in 1..Len(calls) :
          calls[i].messages.kind = "text" /\ calls[i].reply.outcome = "error"

\* C11: in a batch of n documents, whatever the outcome of each (parse
\* failure, text service failure, success), the documents are attempted once
\* each in list order; a document fails only for a cause of its own and is
\* processed from its own elements with fresh locals, whatever happened to
\* the documents before it; the loop goes on after a failure until every
\* document is attempted; and when the loop ends success_count + fail_count
\* = n, with fail_count the number of documents whose conversion failed.
C11_BatchIsolation ==
    /\ Attempted = [i \in 1..Len(Attempted) |-> i]
    /\ Len(Attempted) = doc_idx + (IF InConvertFile THEN 1 ELSE 0)
    /\ success_count + fail_count = doc_idx
    /\ fail_count = Cardinality(FailedDocs)
    /\ success_count = Cardinality(ConvertedDocs \ {doc_idx + 1})
    /\ FailedDocs \cap ConvertedDocs = {}
    /\ pc = "main_loop" => FileIdle /\ ChunkIdle
    /\ (InConvertFile /\ pc # "raised") =>
          /\ docx_files[doc_idx + 1].valid
          /\ elements = docx_files[doc_idx + 1].elements
    /\ pc = "raised" => FailureOfThisDocument
    /\ pc = "converted" => ~FailureOfThisDocument
    /\ pc # "done" => ENABLED NextMain
    /\ pc = "done" =>
          /\ Len(Attempted) = Len(docx_files)
          /\ success_count + fail_count = Len(docx_files)
          /\ FailedDocs \cup ConvertedDocs = 1..Len(docx_files)

\* the batch is over: a parse failure and a text service failure came before
\* a document that was converted
C11_Witness ==
    /\ pc = "done"
    /\ OPENAI_API_KEY # ""
    /\ Len(docx_files) = 3
    /\ ~docx_files[1].valid
    /\ docx_files[2].valid
    /\ FailedDocs = {1, 2}
    /\ ConvertedDocs = {3}

----------------------------------------------------------------------------
(* C12: the credential is required before any document is processed *)

\* process_with_ai is raising for want of the credential
MissingCredentialRaised ==
    pc = "raised" /\ OPENAI_API_KEY = "" /\ docx_files[doc_idx + 1].valid

\* C12 as stated: when the credential is absent, no document is parsed and
\* no conversion of a document is started before the failure for the missing
\* credential occurs.
C12_CredentialBeforeDocuments ==
    MissingCredentialRaised =>
        /\ Attempted = <<>>
        /\ LinesOf("Parsing") = <<>>
        /\ elements = <<>>

\* What the code does when the credential is absent: every document is
\* parsed, the failure is raised for each valid document after parse_docx
\* has returned its elements, no service call is made, nothing is written
\* and every document is counted as failed.
C12_CredentialPerDocument ==
    OPENAI_API_KEY = "" =>
        /\ calls = <<>>
        /\ written = <<>>
        /\ success_count = 0
        /\ MissingCredentialRaised =>
              /\ LinesOf("Parsing")[Len(LinesOf("Parsing"))].n = doc_idx + 1
              /\ elements = docx_files[doc_idx + 1].elements
        /\ pc = "done" =>
              /\ fail_count = Len(docx_files)
              /\ Len(LinesOf("Parsing")) = Len(docx_files)

----------------------------------------------------------------------------
(* C13: the position hint of an image *)

\* the positions of the Text elements before position i
TextsBefore(elems, i) == {j \in 1..(i - 1) : elems[j].type = "text"}

\* the first n characters of a text; the empty string is AbstractText(0, 0)
FirstChars(content, n) ==
    IF content.len = 0 \/ n = 0 THEN AbstractText(0, 0)
    ELSE IF content.len <= n THEN content
    ELSE AbstractText(content.id, n)

\* the hint the image at position i is to have
NearestTextHint(elems, i) ==
    IF TextsBefore(elems, i) = {} THEN AbstractText(0, 0)
    ELSE LET j == CHOOSE j \in TextsBefore(elems, i) :
                      \A k \in TextsBefore(elems, i) : k <= j
         IN  FirstChars(elems[j].content, 80)

\* the positions in elems of the image a call carries
ImagePositions(elems, c) ==
    {i \in 1..Len(elems) :
        elems[i].type = "image" /\ elems[i].content = c.messages.data}

\* C13: for the element sequence given to process_with_ai, the position hint
\* passed in the service call of every Image element is the first 80
\* characters of the content of the nearest Text element before the image,
\* and the empty string when no Text element comes before it.
C13_PositionHint ==
    /\ \A k \in 1..Len(image_elements) :
          /\ elements[image_elements[k].orig_idx + 1] = image_elements[k].elem
          /\ image_elements[k].hint =
                NearestTextHint(elements, image_elements[k].orig_idx + 1)
    /\ \A k \in 1..Len(ImageCalls) :
          /\ Cardinality(ImagePositions(elements, ImageCalls[k])) = 1
          /\ \A i \in ImagePositions(elements, ImageCalls[k]) :
                ImageCalls[k].messages.hint = NearestTextHint(elements, i)

\* two images have been sent: one after a long text with its first 80
\* characters, one after a later short text with the whole of that text
C13_Witness ==
    /\ Len(ImageCalls) = 2
    /\ Len(elements) = 4
    /\ ImageCalls[1].messages.hint.len = 80
    /\ ImageCalls[2].messages.hint.len = 40
    /\ ImageCalls[1].messages.hint.id # ImageCalls[2].messages.hint.id

\* an image that no text precedes has been sent with the empty hint
C13_WitnessNoText ==
    /\ Len(ImageCalls) >= 1
    /\ elements[1].type = "image"
    /\ ImageCalls[1].messages.hint = AbstractText(0, 0)

----------------------------------------------------------------------------
(* C14: the service calls of one document, in order *)

\* the opening call and a continuation call for a chunk
OpeningCall(chunk) ==
    [kind |-> "text",
     system |-> "SYSTEM_PROMPT",
     lead |-> "Please convert the following document content",
     parts |-> [i \in 1..Len(chunk) |-> chunk[i].content]]

ContinuationCall(chunk) ==
    [kind |-> "text",
     system |-> "_CONTINUATION_PROMPT",
     lead |-> "This is the NEXT part of the same document",
     parts |-> [i \in 1..Len(chunk) |-> chunk[i].content]]

\* the call for the image at position i of elems
ImageCallAt(elems, i) ==
    [kind |-> "image",
     system |-> "_IMAGE_PROMPT",
     hint |-> NearestTextHint(elems, i),
     mime |-> elems[i].mime,
     data |-> elems[i].content]

\* the positions of the images of elems, in encounter order
RECURSIVE ImagesInOrder(_, _)
ImagesInOrder(elems, i) ==
    IF i > Len(elems) THEN <<>>
    ELSE IF elems[i].type = "image" THEN <<i>> \o ImagesInOrder(elems, i + 1)
    ELSE ImagesInOrder(elems, i + 1)

\* the calls a document is to get: its chunks in order, the first as the
\* opening call, then its images in encounter order
ExpectedCalls(elems) ==
    LET texts == SelectSeq(elems, LAMBDA e : e.type = "text")
        chunks_ == _split_text_chunks(texts)
        images == ImagesInOrder(elems, 1)
    IN  [k \in 1..Len(chunks_) |->
            IF k = 1 THEN OpeningCall(chunks_[k]) ELSE ContinuationCall(chunks_[k])]
        \o [k \in 1..Len(images) |-> ImageCallAt(elems, images[k])]

\* the messages of the calls made so far for the document at hand
CallMessages == [k \in 1..Len(calls) |-> calls[k].messages]

\* C14: for a document with n chunks and m images, the service calls issued
\* by process_with_ai are, in order, one call per chunk in chunk order, the
\* first tagged as the opening call and every other as a continuation, then
\* one call per image in encounter order: every chunk call comes before any
\* image call, no call is issued twice, and when no text call fails and
\* process_with_ai returns the calls are exactly these n + m.
C14_CallSequence ==
    /\ Len(CallMessages) <= Len(ExpectedCalls(elements))
    /\ CallMessages = SubSeq(ExpectedCalls(elements), 1, Len(CallMessages))
    /\ \A i, j \in 1..Len(calls) :
          /\ i # j => CallMessages[i] # CallMessages[j]
          /\ (CallMessages[i].kind = "image" /\ CallMessages[j].kind = "text") => j < i
          /\ (CallMessages[i].kind = "text" /\ CallMessages[i].system = "SYSTEM_PROMPT")
                => i = 1
    /\ pc = "converted" =>
          /\ CallMessages = ExpectedCalls(elements)
          /\ Len(TextCalls) = Len(chunks)
          /\ Len(ImageCalls) = Len(image_elements)

\* a document of two chunks and two images has been converted: an opening
\* call, a continuation call, then the two image calls
C14_Witness ==
    /\ pc = "converted"
    /\ Len(calls) = 4
    /\ CallMessages[1] = OpeningCall(chunks[1])
    /\ CallMessages[2] = ContinuationCall(chunks[2])
    /\ CallMessages[3].kind = "image"
    /\ CallMessages[4].kind = "image"
    /\ CallMessages[3].data # CallMessages[4].data
====
